---------------------------- MODULE Spec2Model ----------------------------
(***************************************************************************)
(* A model of the software rendering pipeline of lab4-shaders              *)
(* (src/src/main.rs, src/src/shaders.rs).                                  *)
(*                                                                         *)
(* Numbers.  The program computes in f32.  The model computes in fixed     *)
(* point: a scalar is an integer number of thousandths (ONE = 1.0), and    *)
(* the three non-finite f32 values are kept as PosInf, NegInf and NaN with *)
(* the IEEE rules for them (x/0, 0/0, 0*inf, comparisons with NaN false).  *)
(* Results are truncated toward zero to a thousandth where f32 rounds to   *)
(* 24 bits; the model has one zero where f32 has +0.0 and -0.0.            *)
(***************************************************************************)
EXTENDS Integers, Naturals, Sequences, FiniteSets, TLC

NoCall == <<>>

----------------------------------------------------------------------------
(* f32 in fixed point *)

ONE == 10 * 100
PosInf == 2^30
NegInf == -(2^30)
NaN == 2^30 + 1

IsFinite(a) == a # NaN /\ a # PosInf /\ a # NegInf
Abs(a) == IF a < 0 THEN -a ELSE a
Sgn(a) == IF a < 0 THEN -1 ELSE IF a > 0 THEN 1 ELSE 0
Min(a, b) == IF a < b THEN a ELSE b
Max(a, b) == IF a > b THEN a ELSE b
\* integer division truncating toward zero, as a float-to-integer cast truncates
TruncDiv(a, b) == Sgn(a) * Sgn(b) * (Abs(a) \div Abs(b))
\* a finite result out of the representable range becomes an infinity
Overflow(v) == IF v >= PosInf THEN PosInf ELSE IF v <= NegInf THEN NegInf ELSE v

FNeg(a) == IF a = NaN THEN NaN ELSE IF a = PosInf THEN NegInf
           ELSE IF a = NegInf THEN PosInf ELSE -a

FAdd(a, b) ==
    IF a = NaN \/ b = NaN THEN NaN
    ELSE IF ~IsFinite(a) THEN (IF ~IsFinite(b) /\ b # a THEN NaN ELSE a)
    ELSE IF ~IsFinite(b) THEN b
    ELSE Overflow(a + b)

FSub(a, b) == FAdd(a, FNeg(b))

\* |a| * |b| / ONE for finite operands, computed without leaving 32 bits: both
\* operands are split into units and thousandths
MulMag(A, B) ==
    LET ah == A \div ONE
        al == A % ONE
        bh == B \div ONE
        bl == B % ONE
    IN  IF ah > 0 /\ bh > ((PosInf \div ONE) \div ah) THEN PosInf
        ELSE Overflow(Overflow(Overflow(ah * bh * ONE + ah * bl) + al * bh)
                      + ((al * bl) \div ONE))

\* the magnitude m with the sign of the product of a and b
Signed(a, b, m) == IF Sgn(a) * Sgn(b) < 0 THEN FNeg(m) ELSE m

FMul(a, b) ==
    IF a = NaN \/ b = NaN THEN NaN
    ELSE IF ~IsFinite(a) \/ ~IsFinite(b)
         THEN (IF a = 0 \/ b = 0 THEN NaN
               ELSE IF Sgn(a) * Sgn(b) > 0 THEN PosInf ELSE NegInf)
    ELSE Signed(a, b, MulMag(Abs(a), Abs(b)))

\* |a| / |b| * ONE for finite operands, b # 0
DivMag(A, B) ==
    LET q == A \div B
        r == A % B
    IN  IF q >= (PosInf \div ONE) THEN PosInf
        ELSE IF r > (PosInf \div ONE) THEN Overflow(q * ONE + (r \div (B \div ONE)))
        ELSE Overflow(q * ONE + ((r * ONE) \div B))

FDiv(a, b) ==
    IF a = NaN \/ b = NaN THEN NaN
    ELSE IF ~IsFinite(a)
         THEN (IF ~IsFinite(b) THEN NaN
               ELSE IF (Sgn(a) < 0) = (b < 0) THEN PosInf ELSE NegInf)
    ELSE IF ~IsFinite(b) THEN 0
    ELSE IF b = 0 THEN (IF a = 0 THEN NaN ELSE IF a > 0 THEN PosInf ELSE NegInf)
    ELSE Signed(a, b, DivMag(Abs(a), Abs(b)))

\* comparisons: false when an operand is NaN
FLt(a, b) == a # NaN /\ b # NaN /\ a < b
FGt(a, b) == FLt(b, a)
FLe(a, b) == a # NaN /\ b # NaN /\ a <= b

----------------------------------------------------------------------------
(* nalgebra_glm vectors and matrices: a Vec is a tuple of scalars, a Mat a  *)
(* tuple of rows.                                                           *)

Sum3(a, b, c) == FAdd(FAdd(a, b), c)

\* A function written [i \in 1..n |-> e] is evaluated anew at each
\* application; as a tuple its components are evaluated once.
Tuple(f) == f \o <<>>

Row4Vec(r, v) ==
    FAdd(Sum3(FMul(r[1], v[1]), FMul(r[2], v[2]), FMul(r[3], v[3])), FMul(r[4], v[4]))

Mat4Vec(A, v) == Tuple([i \in 1..4 |-> Row4Vec(A[i], v)])

\* entry (i, j) is row i of A times column j of B
Mat4Mul(A, B) ==
    Tuple([i \in 1..4 |->
              Tuple([j \in 1..4 |->
                        Row4Vec(A[i], <<B[1][j], B[2][j], B[3][j], B[4][j]>>)])])

Row3Vec(r, v) == Sum3(FMul(r[1], v[1]), FMul(r[2], v[2]), FMul(r[3], v[3]))

Mat3Vec(A, v) == Tuple([i \in 1..3 |-> Row3Vec(A[i], v)])

mat4_to_mat3(A) ==
    << <<A[1][1], A[1][2], A[1][3]>>,
       <<A[2][1], A[2][2], A[2][3]>>,
       <<A[3][1], A[3][2], A[3][3]>> >>

Mat3Transpose(A) ==
    << <<A[1][1], A[2][1], A[3][1]>>,
       <<A[1][2], A[2][2], A[3][2]>>,
       <<A[1][3], A[2][3], A[3][3]>> >>

Mat3Identity == <<<<ONE, 0, 0>>, <<0, ONE, 0>>, <<0, 0, ONE>>>>

Mat4Identity ==
    <<<<ONE, 0, 0, 0>>, <<0, ONE, 0, 0>>, <<0, 0, ONE, 0>>, <<0, 0, 0, ONE>>>>

\* the 2x2 determinant of rows r1, r2 and columns c1, c2 of A
Minor(A, r1, r2, c1, c2) ==
    FSub(FMul(A[r1][c1], A[r2][c2]), FMul(A[r1][c2], A[r2][c1]))

Mat3Det(A) ==
    FAdd(FSub(FMul(A[1][1], Minor(A, 2, 3, 2, 3)), FMul(A[1][2], Minor(A, 2, 3, 1, 3))),
         FMul(A[1][3], Minor(A, 2, 3, 1, 2)))

\* the two indices of 1..3 other than i, in increasing order
Others(i) == IF i = 1 THEN <<2, 3>> ELSE IF i = 2 THEN <<1, 3>> ELSE <<1, 2>>

\* entry (i, j) of the adjugate of A: the cofactor of entry (j, i)
Adjugate(A, i, j) ==
    IF (i + j) % 2 = 0
    THEN Minor(A, Others(j)[1], Others(j)[2], Others(i)[1], Others(i)[2])
    ELSE FNeg(Minor(A, Others(j)[1], Others(j)[2], Others(i)[1], Others(i)[2]))

\* Matrix3::try_inverse: None (modelled as <<>>) when the determinant is zero,
\* otherwise the adjugate divided by the determinant.
Mat3TryInverse(A) ==
    LET Inverse(d) ==
            IF d = 0 THEN <<>>
            ELSE Tuple([i \in 1..3 |-> Tuple([j \in 1..3 |-> FDiv(Adjugate(A, i, j), d)])])
    IN  Inverse(Mat3Det(A))


----------------------------------------------------------------------------
(* f32::sin, cos, sqrt in fixed point *)

PI == 3142
TwoPi == 6283
HalfPi == 1571

\* x reduced to [-pi/2, pi/2] by the symmetries of the sine
SinReduce(x) ==
    LET r0 == x % TwoPi
        r1 == IF r0 > PI THEN r0 - TwoPi ELSE r0
    IN  IF r1 > HalfPi THEN PI - r1 ELSE IF r1 < -HalfPi THEN (-PI) - r1 ELSE r1

RECURSIVE SinSeries(_, _, _, _)
\* the terms of the Taylor polynomial of the sine from degree k on: term is
\* r^k, r2 is r^2 and factorial is k! with the sign of the term
SinSeries(term, r2, k, factorial) ==
    IF k > 9 THEN 0
    ELSE TruncDiv(term, factorial)
         + SinSeries(FMul(term, r2), r2, k + 2, -factorial * (k + 1) * (k + 2))

\* the Taylor polynomial of degree 9 on the reduced argument r
Sin(x) ==
    LET Polynomial(r) == Max(-ONE, Min(ONE, SinSeries(r, FMul(r, r), 1, 1)))
    IN  IF ~IsFinite(x) THEN NaN ELSE Polynomial(SinReduce(x))

Cos(x) == IF ~IsFinite(x) THEN NaN ELSE Sin(x + HalfPi)

RECURSIVE ISqrtIter(_, _, _)
\* the largest s in lo..hi with s*s <= n, by bisection
ISqrtIter(n, lo, hi) ==
    IF lo >= hi THEN lo
    ELSE LET mid == (lo + hi + 1) \div 2
         IN  IF mid * mid <= n THEN ISqrtIter(n, mid, hi) ELSE ISqrtIter(n, lo, mid - 1)

ISqrt(n) == ISqrtIter(n, 0, 46340)

Sqrt(a) ==
    IF a = NaN \/ a = NegInf THEN NaN
    ELSE IF a = PosInf THEN PosInf
    ELSE IF a < 0 THEN NaN
    ELSE IF a <= 2000000 THEN ISqrt(a * ONE)
    ELSE (ISqrt(a) * 31623) \div ONE

----------------------------------------------------------------------------
(* Vec3 *)

Vec3Sub(a, b) == Tuple([i \in 1..3 |-> FSub(a[i], b[i])])
Vec3Add(a, b) == Tuple([i \in 1..3 |-> FAdd(a[i], b[i])])
Vec3Scale(a, k) == Tuple([i \in 1..3 |-> FMul(a[i], k)])
Vec3Neg(a) == Tuple([i \in 1..3 |-> FNeg(a[i])])
Dot(a, b) == Row3Vec(a, b)
\* the component after i, cyclically
Succ3(i) == (i % 3) + 1
Cross(a, b) ==
    Tuple([i \in 1..3 |-> FSub(FMul(a[Succ3(i)], b[Succ3(Succ3(i))]),
                                FMul(a[Succ3(Succ3(i))], b[Succ3(i)]))])
Norm(a) == Sqrt(Dot(a, a))
\* Vec3::normalize divides by the norm; the zero vector gives NaN components
Normalize(a) == LET n == Norm(a) IN Tuple([i \in 1..3 |-> FDiv(a[i], n)])

----------------------------------------------------------------------------
(* main.rs: the matrices of a transform context *)

create_model_matrix(translation, scale, rotation) ==
    LET sin_x == Sin(rotation[1])
        cos_x == Cos(rotation[1])
        sin_y == Sin(rotation[2])
        cos_y == Cos(rotation[2])
        sin_z == Sin(rotation[3])
        cos_z == Cos(rotation[3])
        rotation_matrix_x ==
            << <<ONE, 0, 0, 0>>,
               <<0, cos_x, -sin_x, 0>>,
               <<0, sin_x, cos_x, 0>>,
               <<0, 0, 0, ONE>> >>
        rotation_matrix_y ==
            << <<cos_y, 0, sin_y, 0>>,
               <<0, ONE, 0, 0>>,
               <<-sin_y, 0, cos_y, 0>>,
               <<0, 0, 0, ONE>> >>
        rotation_matrix_z ==
            << <<cos_z, -sin_z, 0, 0>>,
               <<sin_z, cos_z, 0, 0>>,
               <<0, 0, ONE, 0>>,
               <<0, 0, 0, ONE>> >>
        rotation_matrix ==
            Mat4Mul(Mat4Mul(rotation_matrix_z, rotation_matrix_y), rotation_matrix_x)
        transform_matrix ==
            << <<scale, 0, 0, translation[1]>>,
               <<0, scale, 0, translation[2]>>,
               <<0, 0, scale, translation[3]>>,
               <<0, 0, 0, ONE>> >>
    IN  Mat4Mul(transform_matrix, rotation_matrix)

\* glm look_at (right-handed), which create_view_matrix returns
create_view_matrix(eye, center, up) ==
    LET Rows(f, s, u) ==
            << <<s[1], s[2], s[3], FNeg(Dot(s, eye))>>,
               <<u[1], u[2], u[3], FNeg(Dot(u, eye))>>,
               <<FNeg(f[1]), FNeg(f[2]), FNeg(f[3]), Dot(f, eye)>>,
               <<0, 0, 0, ONE>> >>
        Upward(f, s) == Rows(f, s, Cross(s, f))
        Sideward(f) == Upward(f, Normalize(Cross(f, up)))
    IN  Sideward(Normalize(Vec3Sub(center, eye)))

\* nalgebra_glm's perspective takes (aspect, fovy, near, far) in that order:
\* the call perspective(fov, aspect_ratio, near, far) hands it fov (45 degrees
\* in radians) as the aspect and aspect_ratio as the vertical field of view.
perspective(aspect, fovy, near, far) ==
    LET half == FDiv(fovy, 2 * ONE)
        tan_half == FDiv(Sin(half), Cos(half))
    IN  << <<FDiv(ONE, FMul(aspect, tan_half)), 0, 0, 0>>,
           <<0, FDiv(ONE, tan_half), 0, 0>>,
           <<0, 0, FDiv(FAdd(far, near), FSub(near, far)),
                   FDiv(FMul(FMul(2 * ONE, far), near), FSub(near, far))>>,
           <<0, 0, -ONE, 0>> >>

create_perspective_matrix(window_width, window_height) ==
    LET fov == FDiv(FMul(45 * ONE, PI), 180 * ONE)
        aspect_ratio == FDiv(window_width, window_height)
        near == ONE \div 10
        far == 1000 * ONE
    IN  perspective(fov, aspect_ratio, near, far)

create_viewport_matrix(width, height) ==
    << <<FDiv(width, 2 * ONE), 0, 0, FDiv(width, 2 * ONE)>>,
       <<0, FDiv(FNeg(height), 2 * ONE), 0, FDiv(height, 2 * ONE)>>,
       <<0, 0, ONE, 0>>,
       <<0, 0, 0, ONE>> >>

----------------------------------------------------------------------------
(* shaders.rs: the vertex transform stage *)

\* Option::unwrap_or
unwrap_or(option, default) == IF option = <<>> THEN default ELSE option

\* the normal matrix without the transpose: the inverse of the linear part
normal_matrix_untransposed(model_matrix) ==
    unwrap_or(Mat3TryInverse(mat4_to_mat3(model_matrix)), Mat3Identity)

\* model_mat3.transpose().try_inverse().unwrap_or(Mat3::identity())
normal_matrix(model_matrix) ==
    unwrap_or(Mat3TryInverse(Mat3Transpose(mat4_to_mat3(model_matrix))), Mat3Identity)

\* projection * view * model * (position, 1): the clip-space position
ClipPosition(vertex, uniforms) ==
    LET position == <<vertex.position[1], vertex.position[2], vertex.position[3], ONE>>
    IN  Mat4Vec(Mat4Mul(Mat4Mul(uniforms.projection_matrix, uniforms.view_matrix),
                        uniforms.model_matrix), position)

\* the vertex vertex_shader returns, given the screen position
TransformedVertex(vertex, uniforms, screen_position) ==
    [ position |-> vertex.position,
      normal |-> vertex.normal,
      tex_coords |-> vertex.tex_coords,
      color |-> vertex.color,
      transformed_position |->
          <<screen_position[1], screen_position[2], screen_position[3]>>,
      transformed_normal |-> Mat3Vec(normal_matrix(uniforms.model_matrix), vertex.normal) ]

\* the perspective divide of transformed by w and the viewport transform
PerspectiveDivide(vertex, uniforms, transformed, w) ==
    TransformedVertex(vertex, uniforms,
        Mat4Vec(uniforms.viewport_matrix,
                <<FDiv(transformed[1], w), FDiv(transformed[2], w),
                  FDiv(transformed[3], w), ONE>>))

\* vertex_shader with the perspective divide skipped when w is zero
vertex_shader_guarded(vertex, uniforms) ==
    LET Divide(transformed) ==
            PerspectiveDivide(vertex, uniforms, transformed,
                              IF transformed[4] = 0 THEN ONE ELSE transformed[4])
    IN  Divide(ClipPosition(vertex, uniforms))

vertex_shader(vertex, uniforms) ==
    LET Divide(transformed) ==
            PerspectiveDivide(vertex, uniforms, transformed, transformed[4])
    IN  Divide(ClipPosition(vertex, uniforms))

----------------------------------------------------------------------------
(* the calls of vertex_shader that SpecVS draws from *)

window_width == 800
window_height == 600
framebuffer_width == 800
framebuffer_height == 600

\* the camera main constructs: eye, center, up
DefaultCamera ==
    [eye |-> <<0, 0, 5 * ONE>>, center |-> <<0, 0, 0>>, up |-> <<0, ONE, 0>>]

Vertex(position, normal) ==
    [ position |-> position, normal |-> normal, tex_coords |-> <<0, 0>>,
      color |-> <<0, 0, 0>>,
      transformed_position |-> <<0, 0, 0>>, transformed_normal |-> <<0, 0, 0>> ]

Uniforms(model_matrix, view_matrix, projection_matrix, viewport_matrix, time, debug_mode) ==
    [ model_matrix |-> model_matrix, view_matrix |-> view_matrix,
      projection_matrix |-> projection_matrix, viewport_matrix |-> viewport_matrix,
      time |-> time, debug_mode |-> debug_mode ]

\* object-space positions: on the axes, and in the plane z = 5 through the eye,
\* where the clip-space w of the default context is zero
VSPositions ==
    { <<0, 0, 0>>, <<ONE, 0, 0>>, <<0, ONE, 0>>, <<0, 0, 5 * ONE>>,
      <<ONE, 0, 5 * ONE>>, <<-ONE, ONE, 5 * ONE>> }
VSNormals == { <<0, 0, ONE>>, <<ONE, 0, 0>>, <<0, ONE, ONE>> }
VSTranslations == { <<0, 0, 0>>, <<ONE, 0, 0>> }
\* scales whose inverses are exact in thousandths; scale 0 is singular
VSScales == { 0, ONE \div 2, ONE, 2 * ONE }
\* no rotation, or a quarter turn about one axis
VSRotations == { <<0, 0, 0>>, <<HalfPi, 0, 0>>, <<0, HalfPi, 0>>, <<0, 0, HalfPi>> }

VSInputs ==
    { [ vertex |-> Vertex(p, n),
        uniforms |-> Uniforms(create_model_matrix(t, sc, r),
                              create_view_matrix(DefaultCamera.eye, DefaultCamera.center,
                                                 DefaultCamera.up),
                              create_perspective_matrix(window_width * ONE, window_height * ONE),
                              create_viewport_matrix(framebuffer_width * ONE,
                                                     framebuffer_height * ONE),
                              1, 0) ] :
      p \in VSPositions, n \in VSNormals, t \in VSTranslations, sc \in VSScales,
      r \in VSRotations }

----------------------------------------------------------------------------
(* more of f32 *)

\* f32::max and f32::min return the other operand when one is NaN
FMax(a, b) == IF a = NaN THEN b ELSE IF b = NaN THEN a ELSE IF a > b THEN a ELSE b
\* f32::clamp keeps NaN
FClamp(a, lo, hi) == IF a = NaN THEN NaN ELSE IF a < lo THEN lo ELSE IF a > hi THEN hi ELSE a
FAbs(a) == IF a = NaN THEN NaN ELSE IF a = NegInf THEN PosInf ELSE Abs(a)
\* f32::fract (and x % 1.0): the fractional part, with the sign of x
FFract(a) == IF ~IsFinite(a) THEN NaN ELSE a - TruncDiv(a, ONE) * ONE
FSquare(a) == FMul(a, a)
FCube(a) == FMul(FMul(a, a), a)
\* powf(32.0) by five squarings
FPow32(a) == FSquare(FSquare(FSquare(FSquare(FSquare(a)))))

RECURSIVE AsinIter(_, _, _, _)
\* the angle in lo..hi whose sine is v, by bisection (the sine is increasing there)
AsinIter(v, lo, hi, n) ==
    IF n = 0 \/ lo >= hi THEN lo
    ELSE LET mid == (lo + hi + 1) \div 2
         IN  IF Sin(mid) <= v THEN AsinIter(v, mid, hi, n - 1)
             ELSE AsinIter(v, lo, mid - 1, n - 1)

\* f32::asin: NaN outside [-1, 1]
Asin(v) ==
    IF ~IsFinite(v) \/ v > ONE \/ v < -ONE THEN NaN
    ELSE IF v = ONE THEN HalfPi
    ELSE AsinIter(v, -HalfPi, HalfPi, 12)

\* f32::atan2(y, x) for finite operands, from the arcsine of y / |(x, y)|
Atan2(y, x) ==
    IF y = NaN \/ x = NaN THEN NaN
    ELSE IF x = 0 /\ y = 0 THEN 0
    ELSE LET a == Asin(FClamp(FDiv(y, Sqrt(FAdd(FSquare(x), FSquare(y)))), -ONE, ONE))
         IN  IF x >= 0 THEN a ELSE IF y >= 0 THEN PI - a ELSE (-PI) - a

----------------------------------------------------------------------------
(* Color: three 8-bit channels <<r, g, b>> *)

\* an f32 cast to u8: truncated, saturating, NaN to 0
SatU8(f) ==
    IF f = NaN THEN 0 ELSE IF f <= 0 THEN 0
    ELSE IF f >= 255 * ONE THEN 255 ELSE f \div ONE

ColorChannelLerp(a, b, t) == SatU8(FAdd(a * ONE, FMul((b - a) * ONE, t)))

\* self.lerp(&other, t)
ColorLerp(self, other, t) ==
    Tuple([i \in 1..3 |-> ColorChannelLerp(self[i], other[i], t)])

\* color * factor
ColorMul(c, factor) == Tuple([i \in 1..3 |-> SatU8(FMul(c[i] * ONE, factor))])

\* color + color
ColorAdd(a, b) == << Min(255, a[1] + b[1]), Min(255, a[2] + b[2]), Min(255, a[3] + b[3]) >>

\* 0xRRGGBB
to_hex(c) == c[1] * 65536 + c[2] * 256 + c[3]

----------------------------------------------------------------------------
(* shaders.rs: the fragment shaders.  A fragment is                         *)
(* [position, depth, normal, intensity, vertex_pos].                        *)

\* the scalar of uniforms.time as f32
TimeF(uniforms) == uniforms.time * ONE

icy_planet_shader(fragment, uniforms) ==
    LET base_color == <<173, 216, 230>>
        fracture_color == <<255, 255, 255>>
        stripe_width == 150
        combined_pos == FAdd(FMul(fragment.vertex_pos[1], 700), FMul(fragment.vertex_pos[2], 300))
        stripe_factor == FAbs(Sin(FMul(FDiv(combined_pos, stripe_width), PI)))
        fracture_factor == FCube(FSub(ONE, stripe_factor))
        fractured_surface == ColorLerp(base_color, fracture_color, fracture_factor)
        normal == Normalize(fragment.normal)
        light_dir == <<0, 0, -ONE>>
        view_dir == Vec3Neg(Normalize(fragment.vertex_pos))
        reflect_dir ==
            Normalize(Vec3Sub(Vec3Scale(normal, FMul(2 * ONE, Dot(light_dir, normal))), light_dir))
        specular_intensity == FPow32(FMax(Dot(reflect_dir, view_dir), 0))
        specular_color == <<255, 255, 255>>
        reflected_surface ==
            ColorLerp(fractured_surface, specular_color, FMul(specular_intensity, 500))
    IN  CASE uniforms.debug_mode = 1 -> ColorMul(base_color, fragment.intensity)
          [] uniforms.debug_mode = 2 -> ColorMul(fracture_color, fracture_factor)
          [] uniforms.debug_mode = 3 -> ColorMul(specular_color, specular_intensity)
          [] OTHER -> ColorMul(reflected_surface, fragment.intensity)

volcanic_planet_shader(fragment, uniforms) ==
    LET rock_color == <<50, 50, 50>>
        lava_color == <<255, 100, 0>>
        lava_scale == 15 * ONE
        noise_x == FAdd(FMul(fragment.vertex_pos[1], lava_scale), FMul(TimeF(uniforms), 100))
        noise_y == FSub(FMul(fragment.vertex_pos[2], lava_scale), FMul(TimeF(uniforms), 100))
        lava_noise == FFract(FMul(FAbs(FMul(Sin(noise_x), Cos(noise_y))), 1500))
        lava_factor == FDiv(FMax(FSub(lava_noise, 700), 0), 300)
        surface_color == ColorLerp(rock_color, lava_color, lava_factor)
        glow_factor == FClamp(FMul(FSquare(lava_factor), 800), 0, ONE)
        glow_color == ColorLerp(lava_color, <<255, 255, 50>>, glow_factor)
        final_color == ColorLerp(surface_color, glow_color, glow_factor)
        lava_emission_factor == 800
        lava_emitted_color == ColorMul(lava_color, lava_emission_factor)
        emitted_color == ColorLerp(final_color, lava_emitted_color, lava_factor)
    IN  CASE uniforms.debug_mode = 1 -> ColorMul(rock_color, fragment.intensity)
          [] uniforms.debug_mode = 2 -> ColorMul(lava_color, lava_factor)
          [] uniforms.debug_mode = 3 -> ColorMul(glow_color, glow_factor)
          [] OTHER -> ColorMul(emitted_color, fragment.intensity)

\* sun_shader whose full composite leaves out the lighting intensity
sun_shader_unlit(fragment, uniforms) ==
    LET color1 == <<255, 255, 255>>
        color2 == <<255, 230, 28>>
        color3 == <<255, 178, 51>>
        color4 == <<204, 102, 0>>
        x == fragment.vertex_pos[1]
        y == fragment.vertex_pos[2]
        radius == Sqrt(FAdd(FSquare(FSub(x, 0)), FSquare(FSub(y, 0))))
        t == FClamp(radius, 0, ONE)
        blended_color ==
            IF FLt(t, 330) THEN ColorLerp(color1, color2, FDiv(t, 330))
            ELSE IF FLt(t, 660) THEN ColorLerp(color2, color3, FDiv(FSub(t, 330), 330))
            ELSE ColorLerp(color3, color4, FDiv(FSub(t, 660), 340))
        emission_factor == 1500
        emitted_color == ColorMul(blended_color, emission_factor)
    IN  CASE uniforms.debug_mode = 1 -> ColorMul(blended_color, fragment.intensity)
          [] uniforms.debug_mode = 2 -> blended_color
          [] uniforms.debug_mode = 3 -> ColorMul(<<255, 255, 255>>, emission_factor)
          [] OTHER -> emitted_color

\* sun_shader whose pure gradient (mode 2) is scaled by the lighting intensity,
\* as the gradient of mode 1 is
sun_shader_lit_gradient(fragment, uniforms) ==
    LET color1 == <<255, 255, 255>>
        color2 == <<255, 230, 28>>
        color3 == <<255, 178, 51>>
        color4 == <<204, 102, 0>>
        x == fragment.vertex_pos[1]
        y == fragment.vertex_pos[2]
        radius == Sqrt(FAdd(FSquare(FSub(x, 0)), FSquare(FSub(y, 0))))
        t == FClamp(radius, 0, ONE)
        blended_color ==
            IF FLt(t, 330) THEN ColorLerp(color1, color2, FDiv(t, 330))
            ELSE IF FLt(t, 660) THEN ColorLerp(color2, color3, FDiv(FSub(t, 330), 330))
            ELSE ColorLerp(color3, color4, FDiv(FSub(t, 660), 340))
        emission_factor == 1500
        emitted_color == ColorMul(blended_color, emission_factor)
    IN  CASE uniforms.debug_mode = 1 -> ColorMul(blended_color, fragment.intensity)
          [] uniforms.debug_mode = 2 -> ColorMul(blended_color, fragment.intensity)
          [] uniforms.debug_mode = 3 -> ColorMul(<<255, 255, 255>>, emission_factor)
          [] OTHER -> ColorMul(emitted_color, fragment.intensity)

sun_shader(fragment, uniforms) ==
    LET color1 == <<255, 255, 255>>
        color2 == <<255, 230, 28>>
        color3 == <<255, 178, 51>>
        color4 == <<204, 102, 0>>
        x == fragment.vertex_pos[1]
        y == fragment.vertex_pos[2]
        radius == Sqrt(FAdd(FSquare(FSub(x, 0)), FSquare(FSub(y, 0))))
        t == FClamp(radius, 0, ONE)
        blended_color ==
            IF FLt(t, 330) THEN ColorLerp(color1, color2, FDiv(t, 330))
            ELSE IF FLt(t, 660) THEN ColorLerp(color2, color3, FDiv(FSub(t, 330), 330))
            ELSE ColorLerp(color3, color4, FDiv(FSub(t, 660), 340))
        emission_factor == 1500
        emitted_color == ColorMul(blended_color, emission_factor)
    IN  CASE uniforms.debug_mode = 1 -> ColorMul(blended_color, fragment.intensity)
          [] uniforms.debug_mode = 2 -> blended_color
          [] uniforms.debug_mode = 3 -> ColorMul(<<255, 255, 255>>, emission_factor)
          [] OTHER -> ColorMul(emitted_color, fragment.intensity)

\* the three-band gradient shared in form by the gas and ringed planets
BandColor(c1, c2, c3, band_factor) ==
    IF FLt(band_factor, 330) THEN ColorLerp(c1, c2, FDiv(band_factor, 330))
    ELSE IF FLt(band_factor, 660) THEN ColorLerp(c2, c3, FDiv(FSub(band_factor, 330), 330))
    ELSE ColorLerp(c3, c1, FDiv(FSub(band_factor, 660), 340))

gas_planet_shader(fragment, uniforms) ==
    LET band_color1 == <<139, 69, 19>>
        band_color2 == <<205, 133, 63>>
        band_color3 == <<222, 184, 135>>
        band_scale == 4 * ONE
        \* time * 0.001
        flow_offset == uniforms.time
        y_position == FAdd(fragment.vertex_pos[2], flow_offset)
        band_factor == FFract(FAdd(FMul(Sin(FMul(y_position, band_scale)), 500), 500))
        band_color == BandColor(band_color1, band_color2, band_color3, band_factor)
        vortex_center == <<-200, -200>>
        vortex_radius == 300
        distance_to_vortex ==
            Sqrt(FAdd(FSquare(FSub(fragment.vertex_pos[1], vortex_center[1])),
                      FSquare(FSub(fragment.vertex_pos[2], vortex_center[2]))))
        vortex_intensity ==
            FSquare(FDiv(FMax(FSub(vortex_radius, distance_to_vortex), 0), vortex_radius))
        vortex_color == <<255, 69, 0>>
        final_color == ColorLerp(band_color, vortex_color, vortex_intensity)
    IN  CASE uniforms.debug_mode = 1 -> ColorMul(band_color, fragment.intensity)
          [] uniforms.debug_mode = 2 -> ColorMul(vortex_color, vortex_intensity)
          [] OTHER -> ColorMul(final_color, fragment.intensity)

\* |sin((x + r) * scale) * cos((y + r) * scale)| with r = fract(sin(x*k1 + y*k2) * 43758.5453) * detail
RockNoise(x, y, k1, k2, rock_scale, detail_scale) ==
    LET randomness == FMul(Sin(FAdd(FMul(x, k1), FMul(y, k2))), 43758545)
        random_factor == FMul(FFract(randomness), detail_scale)
    IN  FAbs(FMul(Sin(FMul(FAdd(x, random_factor), rock_scale)),
                  Cos(FMul(FAdd(y, random_factor), rock_scale))))

rocky_planet_shader(fragment, uniforms) ==
    LET base_color == <<139, 69, 19>>
        mid_color == <<205, 92, 92>>
        highlight_color == <<255, 160, 122>>
        noise == RockNoise(fragment.vertex_pos[1], fragment.vertex_pos[2],
                           12990, 78233, 10 * ONE, 300)
        rocky_surface ==
            IF FLt(noise, 400) THEN ColorLerp(base_color, mid_color, FDiv(noise, 400))
            ELSE ColorLerp(mid_color, highlight_color, FDiv(FSub(noise, 400), 600))
    IN  ColorMul(rocky_surface, fragment.intensity)

crater_positions ==
    << <<100, 200, 500>>, <<-300, -100, 300>>, <<400, -300, 200>>, <<-100, 500, 400>>,
       <<-500, -400, 250>>, <<300, 400, 350>>, <<100, 500, 200>>, <<200, -100, 250>>,
       <<0, -600, 280>>, <<-400, 200, 220>>, <<500, 0, 300>>, <<-200, -500, 180>>,
       <<350, 500, 240>>, <<-450, -300, 200>> >>

RECURSIVE CraterSum(_, _, _)
\* combined_crater_intensity over craters i..14
CraterSum(i, x, y) ==
    IF i > Len(crater_positions) THEN 0
    ELSE LET c == crater_positions[i]
             distance == Sqrt(FAdd(FSquare(FSub(x, c[1])), FSquare(FSub(y, c[2]))))
             crater_intensity == FCube(FDiv(FMax(FSub(c[3], distance), 0), c[3]))
         IN  FAdd(crater_intensity, CraterSum(i + 1, x, y))

moon_shader(fragment, uniforms) ==
    LET base_color == <<169, 169, 169>>
        mid_color == <<190, 190, 190>>
        highlight_color == <<211, 211, 211>>
        noise == RockNoise(fragment.vertex_pos[1], fragment.vertex_pos[2],
                           15789, 41233, 12 * ONE, 250)
        rocky_surface ==
            IF FLt(noise, 500) THEN ColorLerp(base_color, mid_color, FDiv(noise, 500))
            ELSE ColorLerp(mid_color, highlight_color, FDiv(FSub(noise, 500), 500))
        crater_color == <<100, 100, 100>>
        combined_crater_intensity ==
            CraterSum(1, fragment.vertex_pos[1], fragment.vertex_pos[2])
        final_surface == ColorLerp(rocky_surface, crater_color, combined_crater_intensity)
    IN  ColorMul(final_surface, fragment.intensity)

\* moon_position with the sine and the cosine exchanged
moon_position_from_z(time, radius) ==
    LET angle == FMul(time, 10)
    IN  <<FMul(radius, Sin(angle)), 0, FMul(radius, Cos(angle))>>

\* the moon's orbit: (radius cos(time * 0.01), 0, radius sin(time * 0.01))
moon_position(time, radius) ==
    LET angle == FMul(time, 10)
    IN  <<FMul(radius, Cos(angle)), 0, FMul(radius, Sin(angle))>>

\* ring_planet_shader whose mode 1 returns the stripes alone, unlit
ring_planet_shader_unlit_bands(fragment, uniforms) ==
    LET band_color1 == <<189, 155, 107>>
        band_color2 == <<210, 180, 140>>
        band_color3 == <<255, 222, 173>>
        band_scale == 3500
        flow_offset == (uniforms.time * 8) \div 10
        y_position == FAdd(fragment.vertex_pos[2], flow_offset)
        band_factor == FFract(FAdd(FMul(Sin(FMul(y_position, band_scale)), 500), 500))
        band_color == BandColor(band_color1, band_color2, band_color3, band_factor)
    IN  CASE uniforms.debug_mode = 1 -> band_color
          [] OTHER -> ColorMul(band_color, fragment.intensity)

ring_planet_shader(fragment, uniforms) ==
    LET band_color1 == <<189, 155, 107>>
        band_color2 == <<210, 180, 140>>
        band_color3 == <<255, 222, 173>>
        band_scale == 3500
        \* time * 0.0008
        flow_offset == (uniforms.time * 8) \div 10
        y_position == FAdd(fragment.vertex_pos[2], flow_offset)
        band_factor == FFract(FAdd(FMul(Sin(FMul(y_position, band_scale)), 500), 500))
        band_color == BandColor(band_color1, band_color2, band_color3, band_factor)
    IN  CASE uniforms.debug_mode = 1 -> ColorMul(band_color, fragment.intensity)
          [] OTHER -> ColorMul(band_color, fragment.intensity)

ring_shader(fragment, uniforms) ==
    LET base_color == <<255, 220, 80>>
        shadow_color == <<150, 120, 60>>
        surface_color == base_color
        light_direction == Normalize(<<ONE, ONE, ONE>>)
        normal == Normalize(fragment.vertex_pos)
        light_intensity == FClamp(Dot(normal, light_direction), 200, ONE)
        final_color ==
            CASE uniforms.debug_mode = 1 -> ColorMul(base_color, fragment.intensity)
              [] OTHER -> ColorAdd(ColorMul(surface_color, light_intensity),
                                   ColorMul(shadow_color, FSub(ONE, light_intensity)))
    IN  final_color

RECURSIVE EarthClouds(_, _, _, _, _)
\* cloud_color_final after the cloud disks i..5, starting from acc
EarthClouds(i, acc, u, v, time) ==
    IF i >= 6 THEN acc
    ELSE LET angle == FAdd(FMul(FDiv(i * ONE, 6 * ONE), 2 * PI), FMul(time, 200))
             radius == FAdd(200, i * 50)
             x_pos == FFract(FAdd(FMul(Cos(angle), radius), 500))
             y_pos == FFract(FAdd(FMul(Sin(angle), radius), 500))
             distance_to_cloud == Sqrt(FAdd(FSquare(FSub(u, x_pos)), FSquare(FSub(v, y_pos))))
             is_in_cloud == FLt(distance_to_cloud, 75)
         IN  EarthClouds(i + 1,
                         IF is_in_cloud THEN ColorLerp(acc, <<255, 255, 255>>, 700) ELSE acc,
                         u, v, time)

earth_shader(fragment, uniforms) ==
    LET x == fragment.vertex_pos[1]
        y == fragment.vertex_pos[2]
        z == fragment.vertex_pos[3]
        theta == Asin(FDiv(y, 500))
        phi == Atan2(z, x)
        u == FAdd(FDiv(phi, 2 * PI), 500)
        v == FAdd(FDiv(theta, PI), 500)
        scale == 7200
        noise == FAbs(FMul(Sin(FMul(u, scale)), Cos(FMul(v, scale))))
        continent_threshold == 550
        land_color == <<34, 139, 34>>
        ocean_color == <<0, 105, 148>>
        base_color == IF FGt(noise, continent_threshold) THEN land_color ELSE ocean_color
        time == FMul(TimeF(uniforms), 10)
        cloud_scale == 8 * ONE
        cloud_intensity0 ==
            FAbs(FMul(Sin(FAdd(FMul(u, cloud_scale), time)), Cos(FAdd(FMul(v, cloud_scale), time))))
        cloud_intensity == FMul(FClamp(FSub(cloud_intensity0, 500), 0, ONE), 500)
        cloud_radius == 1500
        distance_from_center == Sqrt(FAdd(FSquare(u), FSquare(v)))
        is_in_atmosphere == FLt(distance_from_center, cloud_radius)
        cloud_color_final == EarthClouds(0, <<0, 0, 0>>, u, v, time)
    IN  IF is_in_atmosphere
        THEN ColorAdd(ColorMul(base_color, FSub(ONE, cloud_intensity)), cloud_color_final)
        ELSE base_color

ShaderType ==
    { "Sun", "Earth", "GasPlanet", "RingPlanet", "RockyPlanet", "IcyPlanet",
      "VolcanicPlanet", "Moon", "Ring" }

fragment_shader(fragment, uniforms, current_shader) ==
    CASE current_shader = "Sun" -> sun_shader(fragment, uniforms)
      [] current_shader = "Earth" -> earth_shader(fragment, uniforms)
      [] current_shader = "GasPlanet" -> gas_planet_shader(fragment, uniforms)
      [] current_shader = "RingPlanet" -> ring_planet_shader(fragment, uniforms)
      [] current_shader = "RockyPlanet" -> rocky_planet_shader(fragment, uniforms)
      [] current_shader = "IcyPlanet" -> icy_planet_shader(fragment, uniforms)
      [] current_shader = "VolcanicPlanet" -> volcanic_planet_shader(fragment, uniforms)
      [] current_shader = "Moon" -> moon_shader(fragment, uniforms)
      [] current_shader = "Ring" -> ring_shader(fragment, uniforms)

----------------------------------------------------------------------------
(* the calls of fragment_shader that SpecShade draws from *)

MaxTime == 2
MaxDebugMode == 3

Fragment(position, depth, normal, intensity, vertex_pos) ==
    [ position |-> position, depth |-> depth, normal |-> normal,
      intensity |-> intensity, vertex_pos |-> vertex_pos ]

\* the transform context main builds for a frame with the camera untouched
FrameUniforms(model_matrix, time, debug_mode) ==
    Uniforms(model_matrix,
             create_view_matrix(DefaultCamera.eye, DefaultCamera.center, DefaultCamera.up),
             create_perspective_matrix(window_width * ONE, window_height * ONE),
             create_viewport_matrix(framebuffer_width * ONE, framebuffer_height * ONE),
             time, debug_mode)

\* shading positions: the origin, points on and off the stripes, the vortex
\* centre, a point with |y| > 0.5 (where the Earth's latitude is NaN)
ShadePositions ==
    { <<0, 0, 0>>, <<300, 400, 0>>, <<-200, -200, 500>>, <<0, ONE, 0>>, <<500, -300, 100>> }
ShadeNormals == { <<0, 0, ONE>>, <<0, 600, -800>> }
ShadeIntensities == { 0, ONE \div 2, ONE }
ShadeFragments ==
    { Fragment(<<0, 0>>, 0, n, i, p) : n \in ShadeNormals, i \in ShadeIntensities,
                                       p \in ShadePositions }

ShadeInputs ==
    { [ fragment |-> f,
        uniforms |-> FrameUniforms(Mat4Identity, t, m),
        current_shader |-> sh ] :
      f \in ShadeFragments, t \in 1..MaxTime, m \in 0..MaxDebugMode, sh \in ShaderType }

----------------------------------------------------------------------------
(* The pixel sink (framebuffer): width * height colours and depths, a        *)
(* background colour and the current draw colour.                            *)

FramebufferNew(width, height) ==
    [ width |-> width, height |-> height,
      buffer |-> [i \in 0..(width * height - 1) |-> 0],
      zbuffer |-> [i \in 0..(width * height - 1) |-> PosInf],
      background_color |-> 0,
      current_color |-> 16777215 ]

set_background_color(fb, color) == [fb EXCEPT !.background_color = color]

set_current_color(fb, color) == [fb EXCEPT !.current_color = color]

\* every pixel to the background colour, every depth to infinity
clear(fb) ==
    [fb EXCEPT !.buffer = [i \in DOMAIN fb.buffer |-> fb.background_color],
               !.zbuffer = [i \in DOMAIN fb.zbuffer |-> PosInf]]

\* the current colour at (x, y) if depth is nearer than the depth recorded there
point(fb, x, y, depth) ==
    IF x < fb.width /\ y < fb.height
    THEN LET index == y * fb.width + x
         IN  IF FGt(fb.zbuffer[index], depth)
             THEN [fb EXCEPT !.buffer[index] = fb.current_color,
                             !.zbuffer[index] = depth]
             ELSE fb
    ELSE fb

----------------------------------------------------------------------------
(* The rasterizer: the pixels whose centres lie inside the triangle, each    *)
(* with depth, normal and object-space position interpolated by its          *)
(* barycentric weights, and a lighting intensity.                            *)

\* the floor of the lighting intensity
AmbientFloor == 0

\* the integer part of a finite scalar, rounded down / up
Floor(a) == a \div ONE
Ceil(a) == -((-a) \div ONE)

EdgeFn(a, b, c) ==
    FSub(FMul(FSub(c[1], a[1]), FSub(b[2], a[2])), FMul(FSub(c[2], a[2]), FSub(b[1], a[1])))

\* the weight of a vertex is the edge function of the other two and p, over
\* the area
Barycentric(p, a, b, c) ==
    LET v == <<a, b, c>>
        Weights(area) ==
            Tuple([i \in 1..3 |-> FDiv(EdgeFn(v[Succ3(i)], v[Succ3(Succ3(i))], p), area)])
    IN  Weights(EdgeFn(a, b, c))

Interpolate3(w, p1, p2, p3) ==
    Vec3Add(Vec3Add(Vec3Scale(p1, w[1]), Vec3Scale(p2, w[2])), Vec3Scale(p3, w[3]))

FiniteXY(v) == IsFinite(v.transformed_position[1]) /\ IsFinite(v.transformed_position[2])

\* the fragment of pixel (x, y) of triangle v1 v2 v3
FragmentAt(x, y, v1, v2, v3) ==
    LET a == v1.transformed_position
        b == v2.transformed_position
        c == v3.transformed_position
        light_dir == <<0, 0, ONE>>
        Lit(w, normal) ==
            Fragment(<<x * ONE, y * ONE>>,
                     Sum3(FMul(w[1], a[3]), FMul(w[2], b[3]), FMul(w[3], c[3])),
                     normal,
                     FClamp(Dot(Normalize(normal), light_dir), AmbientFloor, ONE),
                     Interpolate3(w, v1.position, v2.position, v3.position))
        Weighted(w) ==
            Lit(w, Interpolate3(w, v1.transformed_normal, v2.transformed_normal,
                                v3.transformed_normal))
    IN  Weighted(Barycentric(<<x * ONE + ONE \div 2, y * ONE + ONE \div 2>>, a, b, c))

InsideTriangle(x, y, v1, v2, v3) ==
    LET NoneNegative(w) == FLe(0, w[1]) /\ FLe(0, w[2]) /\ FLe(0, w[3])
    IN  NoneNegative(Barycentric(<<x * ONE + ONE \div 2, y * ONE + ONE \div 2>>,
                                 v1.transformed_position, v2.transformed_position,
                                 v3.transformed_position))

RECURSIVE ScanBox(_, _, _, _, _, _, _, _)
\* the fragments of the bounding box from pixel (x, y) on, row by row
ScanBox(x, y, min_x, max_x, max_y, v1, v2, v3) ==
    IF y > max_y THEN <<>>
    ELSE IF x > max_x THEN ScanBox(min_x, y + 1, min_x, max_x, max_y, v1, v2, v3)
    ELSE (IF InsideTriangle(x, y, v1, v2, v3) THEN <<FragmentAt(x, y, v1, v2, v3)>> ELSE <<>>)
         \o ScanBox(x + 1, y, min_x, max_x, max_y, v1, v2, v3)

\* The centre of no pixel lies inside a triangle that has a vertex with a
\* non-finite screen coordinate, nor inside one of area zero.
triangle(v1, v2, v3) ==
    IF FiniteXY(v1) /\ FiniteXY(v2) /\ FiniteXY(v3)
    THEN LET a == v1.transformed_position
             b == v2.transformed_position
             c == v3.transformed_position
             min_x == Floor(Min(a[1], Min(b[1], c[1])))
             min_y == Floor(Min(a[2], Min(b[2], c[2])))
             max_x == Ceil(Max(a[1], Max(b[1], c[1])))
             max_y == Ceil(Max(a[2], Max(b[2], c[2])))
         IN  IF EdgeFn(a, b, c) = 0 THEN <<>>
             ELSE ScanBox(min_x, min_y, min_x, max_x, max_y, v1, v2, v3)
    ELSE <<>>

----------------------------------------------------------------------------
(* main.rs: render, stage by stage *)

RECURSIVE VertexStage(_, _, _)
\* vertex_shader over vertex_array[i..]
VertexStage(vertex_array, uniforms, i) ==
    IF i > Len(vertex_array) THEN <<>>
    ELSE <<vertex_shader(vertex_array[i], uniforms)>> \o VertexStage(vertex_array, uniforms, i + 1)

RECURSIVE PrimitiveAssemblyStrip(_, _)
\* primitive assembly that advances by one vertex: a triangle strip
PrimitiveAssemblyStrip(transformed_vertices, i) ==
    IF i >= Len(transformed_vertices) THEN <<>>
    ELSE (IF i + 2 < Len(transformed_vertices)
          THEN << <<transformed_vertices[i + 1], transformed_vertices[i + 2],
                    transformed_vertices[i + 3]>> >>
          ELSE <<>>)
         \o PrimitiveAssemblyStrip(transformed_vertices, i + 1)

RECURSIVE PrimitiveAssembly(_, _)
\* for i in (0..len).step_by(3): a triangle when i + 2 < len
PrimitiveAssembly(transformed_vertices, i) ==
    IF i >= Len(transformed_vertices) THEN <<>>
    ELSE (IF i + 2 < Len(transformed_vertices)
          THEN << <<transformed_vertices[i + 1], transformed_vertices[i + 2],
                    transformed_vertices[i + 3]>> >>
          ELSE <<>>)
         \o PrimitiveAssembly(transformed_vertices, i + 3)

RECURSIVE Rasterization(_, _)
Rasterization(triangles, k) ==
    IF k > Len(triangles) THEN <<>>
    ELSE triangle(triangles[k][1], triangles[k][2], triangles[k][3])
         \o Rasterization(triangles, k + 1)

\* `as usize` of an f32: truncated, saturating, NaN to 0; usize::MAX, which
\* exceeds every width, is written PosInf
AsUsize(a) ==
    IF a = NaN THEN 0 ELSE IF a <= 0 THEN 0 ELSE IF a = PosInf THEN PosInf ELSE a \div ONE

\* what one iteration of the fragment loop computes before it touches the
\* framebuffer: the pixel coordinates, the bounds check, the colour to write
FragmentStep(fragment, uniforms, current_shader, width, height) ==
    LET x == AsUsize(fragment.position[1])
        y == AsUsize(fragment.position[2])
    IN  IF x < width /\ y < height
        THEN [ fragment |-> fragment, x |-> x, y |-> y, in_bounds |-> TRUE,
               depth |-> fragment.depth,
               color |-> to_hex(fragment_shader(fragment, uniforms, current_shader)) ]
        ELSE [ fragment |-> fragment, x |-> x, y |-> y, in_bounds |-> FALSE,
               depth |-> fragment.depth, color |-> 0 ]

RECURSIVE FragmentSteps(_, _, _, _, _, _)
FragmentSteps(fragments, uniforms, current_shader, width, height, k) ==
    IF k > Len(fragments) THEN <<>>
    ELSE <<FragmentStep(fragments[k], uniforms, current_shader, width, height)>>
         \o FragmentSteps(fragments, uniforms, current_shader, width, height, k + 1)

\* the body of the bounds check with the two calls swapped: point draws the
\* colour set for the fragment before
ProcessFragmentPointFirst(fb, step) ==
    IF step.in_bounds
    THEN set_current_color(point(fb, step.x, step.y, step.depth), step.color)
    ELSE fb

\* the body of the bounds check: set_current_color, then point
ProcessFragment(fb, step) ==
    IF step.in_bounds
    THEN point(set_current_color(fb, step.color), step.x, step.y, step.depth)
    ELSE fb

RECURSIVE FragmentProcessing(_, _, _)
FragmentProcessing(fb, steps, k) ==
    IF k > Len(steps) THEN fb
    ELSE FragmentProcessing(ProcessFragment(fb, steps[k]), steps, k + 1)

\* the point calls of a pass
PointCalls(steps) == { steps[k] : k \in { j \in 1..Len(steps) : steps[j].in_bounds } }

\* what the stages of a pass made, once its fragments are processed
Processed(transformed_vertices, triangles, fragments, steps) ==
    [ transformed_vertices |-> transformed_vertices,
      triangles |-> triangles,
      fragments |-> fragments,
      steps |-> steps,
      calls |-> PointCalls(steps) ]

\* the pass from its fragments on
Rasterized(transformed_vertices, triangles, fragments, uniforms, current_shader, width, height) ==
    Processed(transformed_vertices, triangles, fragments,
              FragmentSteps(fragments, uniforms, current_shader, width, height, 1))

\* the pass from its transformed vertices on
Transformed(transformed_vertices, uniforms, current_shader, width, height) ==
    Rasterized(transformed_vertices,
               PrimitiveAssembly(transformed_vertices, 0),
               Rasterization(PrimitiveAssembly(transformed_vertices, 0), 1),
               uniforms, current_shader, width, height)

\* the stages of render that do not read the framebuffer's contents
RenderStages(uniforms, vertex_array, current_shader, width, height) ==
    Transformed(VertexStage(vertex_array, uniforms, 1), uniforms, current_shader, width, height)

\* render: the framebuffer after the pass
render(fb, stages) == FragmentProcessing(fb, stages.steps, 1)

----------------------------------------------------------------------------
(* the calls of render that SpecRender draws from, on a small framebuffer *)

FbWidth == 4
FbHeight == 3
MaxVerts == 6
MaxPasses == 3

\* 0x335555, the background main sets
BackgroundColor == 3364181

\* object-space vertices: a triangle reaching left of the screen, a vertex in
\* the plane of the eye (w = 0), vertices at several depths
VertexPool ==
    << Vertex(<<-4 * ONE, 0, 0>>, <<0, 0, ONE>>),
       Vertex(<<ONE, 2 * ONE, 0>>, <<0, 0, ONE>>),
       Vertex(<<ONE, -2 * ONE, 0>>, <<0, 0, ONE>>),
       Vertex(<<0, 0, 5 * ONE>>, <<0, 0, ONE>>),
       Vertex(<<6 * ONE, 0, 0>>, <<0, ONE, 0>>),
       Vertex(<<0, -4 * ONE, 2 * ONE>>, <<0, ONE, ONE>>),
       Vertex(<<0, ONE, 2 * ONE>>, <<ONE, 0, 0>>) >>

RECURSIVE Mesh(_)
\* the vertex array of n vertices: the pool, repeated
Mesh(n) == IF n = 0 THEN <<>> ELSE Append(Mesh(n - 1), VertexPool[((n - 1) % Len(VertexPool)) + 1])

RenderMeshes == { Mesh(n) : n \in 0..MaxVerts }

FbUniforms(model_matrix, time, debug_mode) ==
    Uniforms(model_matrix,
             create_view_matrix(DefaultCamera.eye, DefaultCamera.center, DefaultCamera.up),
             create_perspective_matrix(FbWidth * ONE, FbHeight * ONE),
             create_viewport_matrix(FbWidth * ONE, FbHeight * ONE),
             time, debug_mode)

\* the two passes of the rocky-body-with-moon scene at time 1
RenderContexts ==
    { [ uniforms |-> FbUniforms(create_model_matrix(body.translation, body.scale, <<0, 0, 0>>),
                                1, 0),
        current_shader |-> body.current_shader ] :
      body \in { [ translation |-> <<0, 0, 0>>, scale |-> ONE,
                   current_shader |-> "RockyPlanet" ],
                 [ translation |-> moon_position(ONE, 1300), scale |-> ONE \div 2,
                   current_shader |-> "Moon" ] } }

\* every call of render the frames draw from, with its stages
RenderCalls ==
    { [ vertex_array |-> vertex_array, uniforms |-> c.uniforms,
        current_shader |-> c.current_shader,
        stages |-> RenderStages(c.uniforms, vertex_array, c.current_shader,
                                FbWidth, FbHeight) ] :
      vertex_array \in RenderMeshes, c \in RenderContexts }


----------------------------------------------------------------------------
(* The camera: eye, center and up, with orbit, move_center and zoom.         *)

Camera(eye, center, up) == [eye |-> eye, center |-> center, up |-> up]

\* the bound that keeps the pitch off the poles
PitchMargin == ONE \div 10

\* rotates the eye around the center on the sphere through it
orbit(camera, delta_yaw, delta_pitch) ==
    LET NewEye(radius, new_yaw, new_pitch) ==
            Vec3Add(camera.center,
                    << FMul(FMul(radius, Cos(new_yaw)), Cos(new_pitch)),
                       FNeg(FMul(radius, Sin(new_pitch))),
                       FMul(FMul(radius, Sin(new_yaw)), Cos(new_pitch)) >>)
        Turned(radius_vector) ==
            NewEye(Norm(radius_vector),
                   FAdd(Atan2(radius_vector[3], radius_vector[1]), delta_yaw),
                   FClamp(FAdd(Atan2(FNeg(radius_vector[2]),
                                     Sqrt(FAdd(FSquare(radius_vector[1]),
                                               FSquare(radius_vector[3])))),
                               delta_pitch),
                          PitchMargin - HalfPi, HalfPi - PitchMargin))
    IN  [camera EXCEPT !.eye = Turned(Vec3Sub(camera.eye, camera.center))]

\* translates the look-at target
move_center(camera, offset) == [camera EXCEPT !.center = Vec3Add(camera.center, offset)]

\* scales the distance from the eye to the center
zoom(camera, delta) ==
    [camera EXCEPT !.eye = Vec3Add(camera.center,
                                   Vec3Scale(Vec3Sub(camera.eye, camera.center),
                                             FSub(ONE, delta)))]

----------------------------------------------------------------------------
(* main.rs: the frame loop.  A frame samples the keys that are down, sets    *)
(* the scene, counts the frame, moves the camera, clears the framebuffer,    *)
(* builds the transform context and issues the scene's passes.  A pass is    *)
(* recorded as the arguments of its call of render; what a call of render    *)
(* does to the pixels is the subject of SpecRender.                          *)

Keys == { "Escape", "Key1", "Key2", "Key3", "Key4", "Key5", "Key6", "Key7",
          "Left", "Right", "Up", "Down", "A", "D", "W", "S", "M", "N" }

\* the digit chain tested from Key7 down
SceneKeyFromKey7(keys, scene_number) ==
    IF "Key7" \in keys THEN 7
    ELSE IF "Key6" \in keys THEN 6
    ELSE IF "Key5" \in keys THEN 5
    ELSE IF "Key4" \in keys THEN 4
    ELSE IF "Key3" \in keys THEN 3
    ELSE IF "Key2" \in keys THEN 2
    ELSE IF "Key1" \in keys THEN 1
    ELSE scene_number

\* the scene after the digit keys: the first key down in the else-if chain
SceneKey(keys, scene_number) ==
    IF "Key1" \in keys THEN 1
    ELSE IF "Key2" \in keys THEN 2
    ELSE IF "Key3" \in keys THEN 3
    ELSE IF "Key4" \in keys THEN 4
    ELSE IF "Key5" \in keys THEN 5
    ELSE IF "Key6" \in keys THEN 6
    ELSE IF "Key7" \in keys THEN 7
    ELSE scene_number

\* <<translation, scale, rotation, eye, up>>
setup_scene(scene_number) ==
    CASE scene_number = 1 -> << <<0, 0, 0>>, ONE, <<0, 0, 0>>, <<0, 0, 5 * ONE>>, <<0, ONE, 0>> >>
      [] scene_number = 2 -> << <<0, 0, 0>>, ONE, <<0, 0, 0>>, <<0, 0, 5 * ONE>>, <<0, ONE, 0>> >>
      [] scene_number = 3 -> << <<0, 0, 0>>, ONE, <<0, 0, 0>>, <<0, 0, 5 * ONE>>, <<0, ONE, 0>> >>
      [] scene_number = 4 -> << <<0, 0, 0>>, ONE, <<0, 0, 0>>, <<0, 0, 5 * ONE>>, <<0, ONE, 0>> >>
      [] scene_number = 5 -> << <<0, 0, 0>>, ONE, <<0, 0, 0>>, <<0, 0, 5 * ONE>>, <<0, ONE, 0>> >>
      [] scene_number = 6 -> << <<0, 0, 0>>, ONE, <<0, 0, 0>>, <<0, 0, 5 * ONE>>, <<0, ONE, 0>> >>
      [] scene_number = 7 -> << <<0, 0, 0>>, ONE, <<0, 0, 0>>, <<0, 0, 5 * ONE>>, <<0, ONE, 0>> >>
      [] OTHER -> << <<0, 0, 0>>, ONE, <<0, 0, 0>>, <<0, 0, 5 * ONE>>, <<0, ONE, 0>> >>

\* the match on scene_number that sets current_shader
SceneShader(scene_number) ==
    CASE scene_number = 1 -> "Sun"
      [] scene_number = 2 -> "Earth"
      [] scene_number = 3 -> "GasPlanet"
      [] scene_number = 4 -> "RingPlanet"
      [] scene_number = 5 -> "RockyPlanet"
      [] scene_number = 6 -> "IcyPlanet"
      [] scene_number = 7 -> "VolcanicPlanet"
      [] OTHER -> "Sun"

\* PI / 50.0
RotationSpeed == PI \div 50

handle_input(keys, camera) ==
    LET movement_speed == ONE
        zoom_speed == ONE \div 10
        OrbitIf(down, c, delta_yaw, delta_pitch) ==
            IF down THEN orbit(c, delta_yaw, delta_pitch) ELSE c
        MoveIf(movement, c) ==
            IF FGt(Norm(movement), 0) THEN move_center(c, movement) ELSE c
        ZoomIf(down, c, delta) == IF down THEN zoom(c, delta) ELSE c
        movement == << (IF "D" \in keys THEN movement_speed ELSE 0)
                           - (IF "A" \in keys THEN movement_speed ELSE 0),
                       (IF "W" \in keys THEN movement_speed ELSE 0)
                           - (IF "S" \in keys THEN movement_speed ELSE 0),
                       0 >>
        \* the tests in the order of the source, the first innermost
    IN  ZoomIf("N" \in keys,
            ZoomIf("M" \in keys,
                MoveIf(movement,
                    OrbitIf("Down" \in keys,
                        OrbitIf("Up" \in keys,
                            OrbitIf("Right" \in keys,
                                OrbitIf("Left" \in keys, camera, RotationSpeed, 0),
                                -RotationSpeed, 0),
                            0, -RotationSpeed),
                        0, RotationSpeed)),
                zoom_speed),
            -zoom_speed)

\* one call of render: its arguments
Pass(uniforms, vertex_array, current_shader) ==
    [ uniforms |-> uniforms, vertex_array |-> vertex_array, current_shader |-> current_shader ]

\* render_rings that leaves the frame's time out of the ring context
render_rings_stale_time(uniforms, vertex_array) ==
    LET ring_uniforms ==
            Uniforms(create_model_matrix(<<0, 0, 0>>, 600, <<0, 0, 0>>),
                     uniforms.view_matrix, uniforms.projection_matrix,
                     uniforms.viewport_matrix, 0, uniforms.debug_mode)
    IN  << Pass(ring_uniforms, vertex_array, "Ring") >>

\* the passes render_rings issues
render_rings(uniforms, vertex_array) ==
    LET ring_uniforms ==
            Uniforms(create_model_matrix(<<0, 0, 0>>, 600, <<0, 0, 0>>),
                     uniforms.view_matrix, uniforms.projection_matrix,
                     uniforms.viewport_matrix, uniforms.time, uniforms.debug_mode)
    IN  << Pass(ring_uniforms, vertex_array, "Ring") >>

\* the passes render_scene5 issues
render_scene5(uniforms, vertex_array) ==
    LET moon_pos == moon_position(TimeF(uniforms), 1300)
        moon_uniforms ==
            Uniforms(create_model_matrix(moon_pos, ONE \div 2, <<0, 0, 0>>),
                     uniforms.view_matrix, uniforms.projection_matrix,
                     uniforms.viewport_matrix, uniforms.time, uniforms.debug_mode)
    IN  << Pass(uniforms, vertex_array, "RockyPlanet"),
           Pass(moon_uniforms, vertex_array, "Moon") >>

\* the transform context main builds for the frame
MainUniforms(scene_number, camera, time) ==
    LET recipe == setup_scene(scene_number)
    IN  Uniforms(create_model_matrix(recipe[1], recipe[2], recipe[3]),
                 create_view_matrix(camera.eye, camera.center, camera.up),
                 create_perspective_matrix(window_width * ONE, window_height * ONE),
                 create_viewport_matrix(framebuffer_width * ONE, framebuffer_height * ONE),
                 time, 0)

\* the calls of render of one frame with the ringed body drawn once
FramePassesOnce(scene_number, uniforms) ==
    LET current_shader == SceneShader(scene_number)
    IN  << Pass(uniforms, "sphere_vertex_arrays", current_shader) >>
        \o (IF scene_number = 4 THEN render_rings(uniforms, "ring_vertex_array") ELSE <<>>)
        \o (IF scene_number = 5
            THEN render_scene5(uniforms, "sphere_vertex_arrays")
            ELSE <<>>)

\* the calls of render of one frame, in order
FramePasses(scene_number, uniforms) ==
    LET current_shader == SceneShader(scene_number)
    IN  << Pass(uniforms, "sphere_vertex_arrays", current_shader) >>
        \o (IF scene_number = 4
            THEN << Pass(uniforms, "sphere_vertex_arrays", current_shader) >>
                 \o render_rings(uniforms, "ring_vertex_array")
            ELSE <<>>)
        \o (IF scene_number = 5
            THEN render_scene5(uniforms, "sphere_vertex_arrays")
            ELSE <<>>)

\* the frames a run is followed for
MaxFrames == 2

\* the sets of keys found down in a frame: none, any one key, and pairs that
\* race in the digit chain, with Escape, and in the camera
KeySets ==
    { {} } \cup { {k} : k \in Keys }
    \cup { {"Key2", "Key5"}, {"Key4", "Key7"}, {"Escape", "Key4"}, {"Key5", "Left"},
           {"A", "W"}, {"M", "N"} }

----------------------------------------------------------------------------
(* The state *)

VARIABLES
    \* -- vertex_shader applied to one vertex (specification SpecVS)
    vs_in,          \* the call's arguments: [vertex, uniforms]
    vs_out,         \* the Vertex it returned, or NoCall
    \* -- fragment_shader applied to one fragment (specification SpecShade)
    sh_in,          \* the call's arguments: [fragment, uniforms, current_shader]
    sh_out,         \* the Color it returned, or NoCall
    \* -- render passes on a framebuffer (specification SpecRender)
    framebuffer,    \* the pixel sink
    cleared,        \* whether the framebuffer was cleared for a frame
    n_passes,       \* the passes rendered since the clear
    frame_calls,    \* the point calls made since the clear
    rp,             \* the last render call: its arguments and what each stage made
    \* -- main's frame loop (specification Spec)
    main_scene_number,   \* main's scene_number
    main_time,           \* main's time
    main_camera,         \* main's camera
    running,        \* whether the loop has not been left
    main_keys,           \* the keys the last loop iteration found down
    main_uniforms,       \* the transform context of the last frame, or NoCall
    main_passes,         \* the calls of render of the last loop iteration
    n_clears,       \* the calls of framebuffer.clear() so far
    \* -- moon_position applied to one time (specification SpecMoon)
    mp_in,          \* the call's arguments: [time, radius]
    mp_out          \* the Vec3 it returned, or NoCall

vsVars == <<vs_in, vs_out>>
shVars == <<sh_in, sh_out>>
renderVars == <<framebuffer, cleared, n_passes, frame_calls, rp>>
mainVars ==
    <<main_scene_number, main_time, main_camera, running, main_keys, main_uniforms, main_passes,
      n_clears>>

moonVars == <<mp_in, mp_out>>

vars == <<vsVars, shVars, renderVars, mainVars, moonVars>>

\* the variables of the specifications that are not running
MoonIdle == mp_in = NoCall /\ mp_out = NoCall
VSIdle == vs_in = NoCall /\ vs_out = NoCall
ShadeIdle == sh_in = NoCall /\ sh_out = NoCall
RenderIdle ==
    /\ framebuffer = NoCall
    /\ cleared = FALSE
    /\ n_passes = 0
    /\ frame_calls = {}
    /\ rp = NoCall
MainIdle ==
    /\ main_scene_number = 0
    /\ main_time = 0
    /\ main_camera = NoCall
    /\ running = FALSE
    /\ main_keys = {}
    /\ main_uniforms = NoCall
    /\ main_passes = <<>>
    /\ n_clears = 0

----------------------------------------------------------------------------
(* SpecVS: vertex_shader on one vertex and one transform context *)

InitVS ==
    /\ vs_in \in VSInputs
    /\ vs_out = NoCall
    /\ ShadeIdle /\ RenderIdle /\ MainIdle /\ MoonIdle

\* one call of vertex_shader
VertexShader ==
    /\ vs_in # NoCall
    /\ vs_out = NoCall
    /\ vs_out' = vertex_shader(vs_in.vertex, vs_in.uniforms)
    /\ UNCHANGED <<vs_in, shVars, renderVars, mainVars, moonVars>>

\* the next vertex of the array, under the same transform context (render's loop)
VSNextCall ==
    /\ vs_out # NoCall
    /\ \E p \in VSPositions, n \in VSNormals :
           vs_in' = [vs_in EXCEPT !.vertex = Vertex(p, n)]
    /\ vs_out' = NoCall
    /\ UNCHANGED <<shVars, renderVars, mainVars, moonVars>>

NextVS == VertexShader \/ VSNextCall

SpecVS == InitVS /\ [][NextVS]_vars

----------------------------------------------------------------------------
(* SpecShade: fragment_shader on one fragment *)

InitShade ==
    /\ sh_in \in ShadeInputs
    /\ sh_out = NoCall
    /\ VSIdle /\ RenderIdle /\ MainIdle /\ MoonIdle

\* one call of fragment_shader
FragmentShader ==
    /\ sh_in # NoCall
    /\ sh_out = NoCall
    /\ sh_out' = fragment_shader(sh_in.fragment, sh_in.uniforms, sh_in.current_shader)
    /\ UNCHANGED <<sh_in, vsVars, renderVars, mainVars, moonVars>>

\* the next fragment of the pass, under the same context and variant (render's loop)
ShadeNextCall ==
    /\ sh_out # NoCall
    /\ \E f \in ShadeFragments : sh_in' = [sh_in EXCEPT !.fragment = f]
    /\ sh_out' = NoCall
    /\ UNCHANGED <<vsVars, renderVars, mainVars, moonVars>>

NextShade == FragmentShader \/ ShadeNextCall

SpecShade == InitShade /\ [][NextShade]_vars

----------------------------------------------------------------------------
(* SpecMoon: moon_position on the times of a run of frames *)

\* the times are every tenth frame of MaxMoonSteps tens of frames, which is
\* more than one period of the orbit, and the quarter-period time
MaxMoonSteps == 64
QuarterPeriod == FDiv(HalfPi, 10)
MoonTimes == { 10 * k * ONE : k \in 0..MaxMoonSteps } \cup { QuarterPeriod }
\* the orbit radius of render_scene5 among others
MoonRadii == { ONE \div 2, ONE, 1300, 2 * ONE }

InitMoon ==
    /\ mp_in \in [ time : MoonTimes, radius : MoonRadii ]
    /\ mp_out = NoCall
    /\ VSIdle /\ ShadeIdle /\ RenderIdle /\ MainIdle

\* one call of moon_position
MoonPosition ==
    /\ mp_in # NoCall
    /\ mp_out = NoCall
    /\ mp_out' = moon_position(mp_in.time, mp_in.radius)
    /\ UNCHANGED <<mp_in, vsVars, shVars, renderVars, mainVars>>

\* the call of a later frame, with the same orbit radius
MoonNextCall ==
    /\ mp_out # NoCall
    /\ \E t \in MoonTimes : t > mp_in.time /\ mp_in' = [mp_in EXCEPT !.time = t]
    /\ mp_out' = NoCall
    /\ UNCHANGED <<vsVars, shVars, renderVars, mainVars>>

NextMoon == MoonPosition \/ MoonNextCall

SpecMoon == InitMoon /\ [][NextMoon]_vars

----------------------------------------------------------------------------
(* SpecRender: frames of render passes on a small framebuffer *)

InitRender ==
    /\ framebuffer = set_background_color(FramebufferNew(FbWidth, FbHeight), BackgroundColor)
    /\ cleared = FALSE
    /\ n_passes = 0
    /\ frame_calls = {}
    /\ rp = NoCall
    /\ VSIdle /\ ShadeIdle /\ MainIdle /\ MoonIdle

\* framebuffer.clear(): a frame begins
Clear ==
    /\ framebuffer # NoCall
    /\ framebuffer' = clear(framebuffer)
    /\ cleared' = TRUE
    /\ n_passes' = 0
    /\ frame_calls' = {}
    /\ rp' = NoCall
    /\ UNCHANGED <<vsVars, shVars, mainVars, moonVars>>

\* one call of render within the frame
RenderPass ==
    /\ cleared
    /\ n_passes < MaxPasses
    /\ \E call \in RenderCalls :
          /\ framebuffer' = render(framebuffer, call.stages)
          /\ frame_calls' = frame_calls \cup call.stages.calls
          /\ rp' = [ vertex_array |-> call.vertex_array, uniforms |-> call.uniforms,
                     current_shader |-> call.current_shader, before |-> framebuffer,
                     transformed_vertices |-> call.stages.transformed_vertices,
                     triangles |-> call.stages.triangles,
                     fragments |-> call.stages.fragments,
                     steps |-> call.stages.steps,
                     calls |-> call.stages.calls ]
    /\ n_passes' = n_passes + 1
    /\ UNCHANGED <<cleared, vsVars, shVars, mainVars, moonVars>>

NextRender == Clear \/ RenderPass

SpecRender == InitRender /\ [][NextRender]_vars

----------------------------------------------------------------------------
(* Spec: main's frame loop *)

Init ==
    /\ main_scene_number = 1
    /\ main_time = 0
    /\ main_camera = Camera(<<0, 0, 5 * ONE>>, <<0, 0, 0>>, <<0, ONE, 0>>)
    /\ running = TRUE
    /\ main_keys = {}
    /\ main_uniforms = NoCall
    /\ main_passes = <<>>
    /\ n_clears = 0
    /\ VSIdle /\ ShadeIdle /\ RenderIdle /\ MoonIdle

\* window.is_open() is false: the loop ends
WindowClosed ==
    /\ running
    /\ running' = FALSE
    /\ main_passes' = <<>>
    /\ UNCHANGED <<main_scene_number, main_time, main_camera, main_keys, main_uniforms, n_clears,
                   vsVars, shVars, renderVars, moonVars>>

\* an iteration that finds Escape down: break
EscapeDown ==
    /\ running
    /\ \E keys \in KeySets : "Escape" \in keys /\ main_keys' = keys
    /\ running' = FALSE
    /\ main_passes' = <<>>
    /\ UNCHANGED <<main_scene_number, main_time, main_camera, main_uniforms, n_clears, vsVars, shVars, renderVars, moonVars>>

\* an iteration that builds the transform context before it counts the frame
FrameCountedLate ==
    /\ running
    /\ main_time < MaxFrames
    /\ \E keys \in KeySets :
          /\ "Escape" \notin keys
          /\ main_keys' = keys
          /\ main_scene_number' = SceneKey(keys, main_scene_number)
          /\ main_time' = main_time + 1
          /\ main_camera' = handle_input(keys, main_camera)
          /\ n_clears' = n_clears + 1
          /\ main_uniforms' = MainUniforms(main_scene_number', main_camera', main_time)
          /\ main_passes' = FramePasses(main_scene_number', main_uniforms')
    /\ UNCHANGED <<running, vsVars, shVars, renderVars, moonVars>>

\* an iteration that renders a frame
Frame ==
    /\ running
    /\ main_time < MaxFrames
    /\ \E keys \in KeySets :
          /\ "Escape" \notin keys
          /\ main_keys' = keys
          /\ main_scene_number' = SceneKey(keys, main_scene_number)
          /\ main_time' = main_time + 1
          /\ main_camera' = handle_input(keys, main_camera)
          /\ n_clears' = n_clears + 1
          /\ main_uniforms' = MainUniforms(main_scene_number', main_camera', main_time')
          /\ main_passes' = FramePasses(main_scene_number', main_uniforms')
    /\ UNCHANGED <<running, vsVars, shVars, renderVars, moonVars>>

Next == WindowClosed \/ EscapeDown \/ Frame

Spec == Init /\ [][Next]_vars

----------------------------------------------------------------------------
(* Properties of render (SpecRender) *)

\* the triangles a vertex sequence holds, and the slots of a triangle
TriangleCount(n) == n \div 3
Slots == {1, 2, 3}

\* C1: primitive assembly of a transformed vertex sequence of length n makes
\* exactly floor(n/3) triangles; the k-th (from 0) is the vertices at indices
\* 3k, 3k+1, 3k+2 in that order; the trailing n mod 3 vertices are in no
\* triangle, and no vertex is in two triangles.
C1_PrimitiveAssembly ==
    rp # NoCall =>
        LET tv == rp.transformed_vertices
            n == Len(tv)
            tris == rp.triangles
            uses(i) == { <<k, j>> \in (1..Len(tris)) \X Slots : tris[k][j] = tv[i] }
        IN  /\ n = Len(rp.vertex_array)
            /\ Len(tris) = TriangleCount(n)
            /\ \A k \in 0..(Len(tris) - 1) :
                   tris[k + 1] = <<tv[3 * k + 1], tv[3 * k + 2], tv[3 * k + 3]>>
            /\ \A i \in 1..n :
                   Cardinality(uses(i)) = IF i <= 3 * TriangleCount(n) THEN 1 ELSE 0

\* a pass over a sequence that leaves one or two trailing vertices out
C1_Witness ==
    /\ rp # NoCall
    /\ Len(rp.transformed_vertices) % 3 # 0
    /\ Len(rp.triangles) >= 1
    /\ rp.triangles[1] = <<rp.transformed_vertices[1], rp.transformed_vertices[2],
                           rp.transformed_vertices[3]>>

\* the point calls of a set of calls that land on pixel (x, y) with a depth
\* nearer than the cleared depth
CallsAt(calls, x, y) == { c \in calls : c.x = x /\ c.y = y /\ FLt(c.depth, PosInf) }

Pixels == (0..(FbWidth - 1)) \X (0..(FbHeight - 1))

InsideFramebuffer(fragment, width, height) ==
    /\ IsFinite(fragment.position[1]) /\ IsFinite(fragment.position[2])
    /\ 0 <= fragment.position[1] /\ fragment.position[1] < width * ONE
    /\ 0 <= fragment.position[2] /\ fragment.position[2] < height * ONE

RECURSIVE InsideSteps(_, _, _)
\* the steps of the fragment loop whose fragment lies inside the framebuffer
InsideSteps(steps, width, height) ==
    IF steps = <<>> THEN <<>>
    ELSE (IF InsideFramebuffer(Head(steps).fragment, width, height)
          THEN <<Head(steps)>> ELSE <<>>)
         \o InsideSteps(Tail(steps), width, height)

\* C3: implicit clipping.  A fragment whose screen coordinate lies outside the
\* framebuffer causes no pixel write, so the pass leaves the framebuffer as
\* its inside fragments alone would; and every point call is at the
\* fragment's own coordinates, inside the framebuffer: no outside fragment is
\* redirected to an inside pixel by the conversion to unsigned indices.
C3_ImplicitClipping ==
    rp # NoCall =>
        /\ framebuffer =
               FragmentProcessing(rp.before, InsideSteps(rp.steps, FbWidth, FbHeight), 1)
        /\ \A c \in rp.calls :
               /\ InsideFramebuffer(c.fragment, FbWidth, FbHeight)
               /\ c.x * ONE = c.fragment.position[1]
               /\ c.y * ONE = c.fragment.position[2]

\* the vertices of a pass whose clip-space w is zero
ZeroW(vertex_array, context) ==
    { i \in 1..Len(vertex_array) : ClipPosition(vertex_array[i], context)[4] = 0 }

RECURSIVE WithoutZeroW(_, _, _)
\* vertex_array[i..] without the triangles that have a vertex of ZeroW
WithoutZeroW(vertex_array, context, i) ==
    IF i + 2 > Len(vertex_array) THEN <<>>
    ELSE (IF {i, i + 1, i + 2} \cap ZeroW(vertex_array, context) = {}
          THEN <<vertex_array[i], vertex_array[i + 1], vertex_array[i + 2]>>
          ELSE <<>>)
         \o WithoutZeroW(vertex_array, context, i + 3)

----------------------------------------------------------------------------
(* Properties of vertex_shader (SpecVS) *)

\* the nonzero vectors with components -1, 0, 1
UnitCube ==
    { v \in {-ONE, 0, ONE} \X {-ONE, 0, ONE} \X {-ONE, 0, ONE} : v # <<0, 0, 0>> }

\* a 3x3 matrix that sends a nonzero vector to zero
IsSingular(m) == \E v \in UnitCube : Mat3Vec(m, v) = <<0, 0, 0>>

\* two vectors equal to within the rounding of the inverse
NormalTolerance == ONE \div 200
Vec3Near(a, b) == \A j \in 1..3 : IsFinite(a[j]) /\ IsFinite(b[j]) /\ Abs(a[j] - b[j]) <= NormalTolerance

\* C9: when the upper-left 3x3 of the model matrix is singular the normal
\* matrix is the identity and vertex_shader returns the object-space normal
\* as the transformed normal; when it is invertible the normal matrix is the
\* transpose of its inverse, so the transpose of the model's linear part
\* takes the transformed normal back to the object-space normal.
C9_NormalMatrix ==
    vs_out # NoCall =>
        LET model_mat3 == mat4_to_mat3(vs_in.uniforms.model_matrix)
            normal == vs_in.vertex.normal
        IN  IF IsSingular(model_mat3)
            THEN /\ normal_matrix(vs_in.uniforms.model_matrix) = Mat3Identity
                 /\ vs_out.transformed_normal = normal
            ELSE /\ Mat3TryInverse(model_mat3) # <<>>
                 /\ normal_matrix(vs_in.uniforms.model_matrix)
                        = Mat3Transpose(Mat3TryInverse(model_mat3))
                 /\ Vec3Near(Mat3Vec(Mat3Transpose(model_mat3), vs_out.transformed_normal),
                             normal)

\* vertex_shader has returned under a model matrix of scale 0
C9_Witness ==
    /\ vs_out # NoCall
    /\ IsSingular(mat4_to_mat3(vs_in.uniforms.model_matrix))
    /\ vs_in.vertex.normal # <<0, 0, 0>>
    /\ vs_out.transformed_normal = vs_in.vertex.normal

----------------------------------------------------------------------------
(* Properties of fragment_shader (SpecShade) *)

\* the call's transform context with another debug mode
WithDebugMode(context, debug_mode) == [context EXCEPT !.debug_mode = debug_mode]

\* C6: every one of the nine variants honours the debug-mode selector: mode 0
\* returns the full composite, and each of modes 1, 2 and 3 returns an
\* isolated intermediate signal rather than the full composite, that is, a
\* colour that on some fragment is not the composite's.
C6_DebugModesHonoured ==
    (sh_out # NoCall /\ sh_in.uniforms.debug_mode \in 1..3) =>
        \E f \in ShadeFragments :
            fragment_shader(f, sh_in.uniforms, sh_in.current_shader)
                # fragment_shader(f, WithDebugMode(sh_in.uniforms, 0), sh_in.current_shader)

\* C7 as the specification states it: under debug mode 0 no other variant
\* returns the colour the called variant returned for the fragment.
C7_NeverIdentical ==
    (sh_out # NoCall /\ sh_in.uniforms.debug_mode = 0) =>
        \A other \in ShaderType \ {sh_in.current_shader} :
            fragment_shader(sh_in.fragment, sh_in.uniforms, other) # sh_out

\* the variants whose full composite is scaled by the lighting intensity
IntensityScaled ==
    { "Sun", "GasPlanet", "RingPlanet", "RockyPlanet", "IcyPlanet", "VolcanicPlanet", "Moon" }

\* whether two variants differ under debug mode 0 on some fragment and time
Distinguishable(a, b) ==
    \E f \in ShadeFragments, t \in 1..MaxTime :
        fragment_shader(f, FrameUniforms(Mat4Identity, t, 0), a)
            # fragment_shader(f, FrameUniforms(Mat4Identity, t, 0), b)

AllDistinguishable ==
    \A a \in ShaderType : \A b \in ShaderType \ {a} : Distinguishable(a, b)

\* C7: under debug mode 0 two different variants can return the same colour:
\* each of the seven variants that scale the composite by the lighting
\* intensity returns (0, 0, 0) for a fragment of intensity 0.  What holds is
\* that any two different variants differ on some fragment.
C7_IdenticalAtZeroIntensity ==
    (sh_out # NoCall /\ sh_in.uniforms.debug_mode = 0) =>
        /\ (sh_in.fragment.intensity = 0 /\ sh_in.current_shader \in IntensityScaled)
               => sh_out = <<0, 0, 0>>
        /\ AllDistinguishable

\* the base star has shaded a fragment of intensity 0 black, as the gas planet
\* would
C7_Witness ==
    /\ sh_out # NoCall
    /\ sh_in.uniforms.debug_mode = 0
    /\ sh_in.fragment.intensity = 0
    /\ sh_in.current_shader = "Sun"
    /\ sh_out = <<0, 0, 0>>
    /\ fragment_shader(sh_in.fragment, sh_in.uniforms, "GasPlanet") = sh_out

\* the fragment's shading position has x = 0 and y = 0
AtProjectedOrigin(fragment) == fragment.vertex_pos[1] = 0 /\ fragment.vertex_pos[2] = 0

\* C11: the base star under debug mode 2 returns color1 = (255, 255, 255) for a
\* fragment whose shading position has x = 0 and y = 0, whatever the
\* fragment's lighting intensity and the time counter are.
C11_SunCentreIsColor1 ==
    (/\ sh_out # NoCall
     /\ sh_in.current_shader = "Sun"
     /\ sh_in.uniforms.debug_mode = 2
     /\ AtProjectedOrigin(sh_in.fragment))
        => sh_out = <<255, 255, 255>>

\* the base star has shaded an unlit fragment at the origin white under debug
\* mode 2 at a time after the first frame; the full composite of that
\* fragment is black
C11_Witness ==
    /\ sh_out = <<255, 255, 255>>
    /\ sh_in.current_shader = "Sun"
    /\ sh_in.uniforms.debug_mode = 2
    /\ AtProjectedOrigin(sh_in.fragment)
    /\ sh_in.fragment.intensity = 0
    /\ sh_in.uniforms.time = MaxTime
    /\ sun_shader(sh_in.fragment, WithDebugMode(sh_in.uniforms, 0)) = <<0, 0, 0>>

\* C13 as the specification states it: the shader of the ring pass (the Ring
\* variant) returns under debug mode 1 the colour it returns under the
\* default mode, for every fragment.
C13_RingModesIdentical ==
    (sh_out # NoCall /\ sh_in.current_shader = "Ring" /\ sh_in.uniforms.debug_mode = 1) =>
        sh_out = fragment_shader(sh_in.fragment, WithDebugMode(sh_in.uniforms, 0), "Ring")

\* C13: it is the shader of the ringed body (the RingPlanet variant) that
\* returns the same colour under debug mode 1 and under the default mode for
\* every fragment; the shader of the ring pass (the Ring variant) returns
\* under mode 1 the base colour (255, 220, 80) scaled by the fragment's
\* lighting intensity, which on some fragment is not its default colour.
C13_RingPlanetModesIdentical ==
    (sh_out # NoCall /\ sh_in.uniforms.debug_mode = 1) =>
        /\ sh_in.current_shader = "RingPlanet" =>
               sh_out = fragment_shader(sh_in.fragment, WithDebugMode(sh_in.uniforms, 0),
                                        "RingPlanet")
        /\ sh_in.current_shader = "Ring" =>
               /\ sh_out = ColorMul(<<255, 220, 80>>, sh_in.fragment.intensity)
               /\ \E f \in ShadeFragments :
                      fragment_shader(f, sh_in.uniforms, "Ring")
                          # fragment_shader(f, WithDebugMode(sh_in.uniforms, 0), "Ring")

\* the ringed body has shaded a half-lit fragment under debug mode 1, to a
\* colour that is not black and is the default mode's
C13_Witness ==
    /\ sh_out # NoCall
    /\ sh_in.current_shader = "RingPlanet"
    /\ sh_in.uniforms.debug_mode = 1
    /\ sh_in.fragment.intensity = ONE \div 2
    /\ sh_out # <<0, 0, 0>>
    /\ sh_out = ring_planet_shader(sh_in.fragment, WithDebugMode(sh_in.uniforms, 0))

----------------------------------------------------------------------------
(* Properties of the frame loop (Spec) *)

\* the last loop iteration rendered a frame
FrameRendered == main_uniforms # NoCall /\ main_passes # <<>>

\* the passes of the last frame that run a variant
PassesWith(current_shader) ==
    { k \in 1..Len(main_passes) : main_passes[k].current_shader = current_shader }

\* C4: in scene 5 every frame issues exactly one pass over the body mesh with
\* the RockyPlanet variant and exactly one pass over the same mesh with the
\* Moon variant, and no other pass.
C4_Scene5TwoPasses ==
    (FrameRendered /\ main_scene_number = 5) =>
        /\ Len(main_passes) = 2
        /\ Cardinality(PassesWith("RockyPlanet")) = 1
        /\ Cardinality(PassesWith("Moon")) = 1
        /\ \A k \in 1..Len(main_passes) :
               main_passes[k].vertex_array = "sphere_vertex_arrays"

\* C5: in scene 4 every frame issues exactly three passes in this order: the
\* body mesh with the RingPlanet variant, the body mesh again with the
\* RingPlanet variant and the same transform context, then the ring mesh with
\* the Ring variant; in every other scene no pass uses the ring mesh or the
\* Ring variant.
C5_Scene4ThreePasses ==
    FrameRendered =>
        IF main_scene_number = 4
        THEN /\ Len(main_passes) = 3
             /\ main_passes[1] = Pass(main_uniforms, "sphere_vertex_arrays", "RingPlanet")
             /\ main_passes[2] = main_passes[1]
             /\ main_passes[3].vertex_array = "ring_vertex_array"
             /\ main_passes[3].current_shader = "Ring"
        ELSE \A k \in 1..Len(main_passes) :
                 /\ main_passes[k].vertex_array # "ring_vertex_array"
                 /\ main_passes[k].current_shader # "Ring"

\* a frame of scene 4 with its three passes
C5_Witness ==
    /\ FrameRendered
    /\ main_scene_number = 4
    /\ Len(main_passes) = 3
    /\ main_passes[3].current_shader = "Ring"

\* the model matrix of a translation and a uniform scale, without rotation
ScaleTranslate(scale, translation) ==
    << <<scale, 0, 0, translation[1]>>,
       <<0, scale, 0, translation[2]>>,
       <<0, 0, scale, translation[3]>>,
       <<0, 0, 0, ONE>> >>

\* (1.3 cos(0.01 t), 0, 1.3 sin(0.01 t)) for the frame counter t
MoonOrbit(t) == <<FMul(1300, Cos(10 * t)), 0, FMul(1300, Sin(10 * t))>>

\* main model matrices other than the one the scenes use
OtherModels ==
    { create_model_matrix(<<ONE, 0, 0>>, 2 * ONE, <<0, 0, HalfPi>>),
      create_model_matrix(<<0, -ONE, ONE>>, ONE \div 2, <<HalfPi, 0, 0>>) }

\* a context that shares all but the model matrix with the main context
DerivedFrom(context, main_context, model_matrix) ==
    context = [main_context EXCEPT !.model_matrix = model_matrix]

\* C10: the contexts built for the ring pass and the moon pass carry the view,
\* projection and viewport matrices, time and debug mode of the frame's main
\* context and differ from it only in the model matrix: translation 0, scale
\* 0.6, no rotation for the ring whatever the main model matrix is;
\* translation moon_position(time, 1.3), scale 0.5, no rotation for the moon.
\* The main context is as main built it, and the body passes use it.
C10_DerivedContexts ==
    FrameRendered =>
        LET ring_model == ScaleTranslate(600, <<0, 0, 0>>)
            moon_model == ScaleTranslate(500, MoonOrbit(main_time))
            mains == {main_uniforms}
                       \cup { [main_uniforms EXCEPT !.model_matrix = m] : m \in OtherModels }
        IN  /\ \A u \in mains :
                   LET moon_passes == render_scene5(u, "sphere_vertex_arrays")
                   IN  /\ DerivedFrom(render_rings(u, "ring_vertex_array")[1].uniforms,
                                      u, ring_model)
                       /\ moon_passes[1].uniforms = u
                       /\ DerivedFrom(moon_passes[2].uniforms, u, moon_model)
            /\ main_uniforms = MainUniforms(main_scene_number, main_camera, main_time)
            /\ main_uniforms.time = main_time /\ main_uniforms.debug_mode = 0
            /\ main_passes[1].uniforms = main_uniforms
            /\ main_scene_number = 4 =>
                   /\ main_passes[2].uniforms = main_uniforms
                   /\ DerivedFrom(main_passes[3].uniforms, main_uniforms, ring_model)
            /\ main_scene_number = 5 =>
                   /\ main_passes[2].uniforms = main_uniforms
                   /\ DerivedFrom(main_passes[3].uniforms, main_uniforms, moon_model)

\* a second frame, of the moon scene, seen from a camera that has moved
C10_Witness ==
    /\ FrameRendered
    /\ main_scene_number = 5
    /\ main_time = 2
    /\ main_camera # Camera(<<0, 0, 5 * ONE>>, <<0, 0, 0>>, <<0, ONE, 0>>)
    /\ main_passes[3].current_shader = "Moon"
    /\ main_passes[3].uniforms.model_matrix # main_uniforms.model_matrix
    /\ main_passes[3].uniforms.view_matrix = main_uniforms.view_matrix

----------------------------------------------------------------------------
(* Properties of moon_position (SpecMoon) *)

\* distances of positions and of angles that count as rounding
MoonTolerance == ONE \div 200
AngleTolerance == ONE \div 20

\* time * 0.01 as an angle in (-pi, pi], and the distance of two angles
MoonAngle(time) ==
    LET a == FMul(time, 10) % TwoPi IN IF a > PI THEN a - TwoPi ELSE a
AngleDistance(a, b) == LET d == Abs(a - b) % TwoPi IN Min(d, TwoPi - d)

\* C12: moon_position(time, radius) is (radius, 0, 0) at time = 0 and, within
\* rounding, (0, 0, radius) at the quarter-period time; at every time its y
\* is 0 and, within rounding, it lies at the distance radius from the origin
\* in the direction of the angle time * 0.01 of the XZ plane.
C12_MoonOrbit ==
    mp_out # NoCall =>
        /\ mp_out[2] = 0
        /\ mp_in.time = 0 => mp_out = <<mp_in.radius, 0, 0>>
        /\ mp_in.time = QuarterPeriod =>
               \A j \in 1..3 :
                   Abs(mp_out[j] - <<0, 0, mp_in.radius>>[j]) <= MoonTolerance
        /\ Abs(Norm(mp_out) - mp_in.radius) <= MoonTolerance
        /\ AngleDistance(Atan2(mp_out[3], mp_out[1]), MoonAngle(mp_in.time))
               <= AngleTolerance

\* the moon of render_scene5 a quarter of its period after the start, on the
\* z axis
C12_Witness ==
    /\ mp_out # NoCall
    /\ mp_in.time = QuarterPeriod
    /\ mp_in.radius = 1300
    /\ Abs(mp_out[1]) <= MoonTolerance
    /\ mp_out[3] > ONE

----------------------------------------------------------------------------
(* Properties of the scene index and the frame counter (Spec) *)

\* the digit keys in the order of their scenes, and the variants of the scenes
DigitKeys == <<"Key1", "Key2", "Key3", "Key4", "Key5", "Key6", "Key7">>
SceneVariants ==
    <<"Sun", "Earth", "GasPlanet", "RingPlanet", "RockyPlanet", "IcyPlanet", "VolcanicPlanet">>

\* the digits whose keys are down, and the lowest of them
DigitsDown(keys) == { d \in 1..7 : DigitKeys[d] \in keys }
LowestDigit(keys) == CHOOSE d \in DigitsDown(keys) : \A e \in DigitsDown(keys) : d <= e

\* C14: the scene index starts at 1 and stays in 1..7: a frame in which digit
\* keys 1-7 are down sets it to the lowest digit that is down, a frame in
\* which none is down keeps it, and nothing else changes it; the first pass of
\* a frame runs the variant of the index (1 Sun, 2 Earth, 3 GasPlanet,
\* 4 RingPlanet, 5 RockyPlanet, 6 IcyPlanet, 7 VolcanicPlanet) under the model
\* matrix of the one geometric recipe all seven indices share.
C14_SceneIndex ==
    /\ main_scene_number = 1
    /\ [][ /\ main_scene_number' \in 1..7
           /\ main_passes' # <<>> =>
                  /\ main_scene_number' =
                         IF DigitsDown(main_keys') # {} THEN LowestDigit(main_keys')
                         ELSE main_scene_number
                  /\ main_passes'[1].current_shader = SceneVariants[main_scene_number']
                  /\ main_passes'[1].vertex_array = "sphere_vertex_arrays"
                  /\ \A s \in 1..7 : setup_scene(s) = setup_scene(main_scene_number')
                  /\ main_passes'[1].uniforms.model_matrix
                         = create_model_matrix(<<0, 0, 0>>, ONE, <<0, 0, 0>>)
           /\ main_passes' = <<>> => main_scene_number' = main_scene_number
         ]_vars

\* the second frame found Key2 and Key5 down and drew the Earth
C14_Witness ==
    /\ FrameRendered
    /\ main_time = 2
    /\ main_keys = {"Key2", "Key5"}
    /\ main_scene_number = 2
    /\ main_passes[1].current_shader = "Earth"

\* C15: the frame counter starts at 0; an iteration that renders a frame adds
\* exactly 1 to it before it builds the transform context, so that the k-th
\* frame carries time = k in its context and in every pass it issues, and no
\* pass carries time = 0; the counter never decreases; an iteration that
\* finds Escape down leaves the loop with the counter as it was, without
\* clearing the framebuffer and without a pass.
C15_FrameCounter ==
    /\ main_time = 0 /\ n_clears = 0
    /\ [][ /\ main_time' >= main_time
           /\ main_passes' # <<>> =>
                  /\ main_time' = main_time + 1
                  /\ n_clears' = n_clears + 1
                  /\ main_time' = n_clears'
                  /\ main_uniforms'.time = main_time'
                  /\ \A k \in 1..Len(main_passes') :
                         /\ main_passes'[k].uniforms.time = main_time'
                         /\ main_passes'[k].uniforms.time # 0
           /\ "Escape" \in main_keys' =>
                  /\ ~running'
                  /\ main_time' = main_time
                  /\ n_clears' = n_clears
                  /\ main_passes' = <<>>
         ]_vars

\* two frames were rendered, the second under time = 2, and the third
\* iteration found Escape down and left the loop
C15_Witness ==
    /\ ~running
    /\ "Escape" \in main_keys
    /\ main_time = 2
    /\ n_clears = 2
    /\ main_uniforms.time = 2
    /\ main_passes = <<>>

============================================================================
